---------------------------- MODULE Spec2Model ----------------------------
(***************************************************************************)
(* Model of the pulp_deb repository synchronisation engine                  *)
(* (plugins/importers/sync.py, class PackageSyncRun) and of the progress    *)
(* report it drives (common/publish_progress.py and its sync-side sibling). *)
(*                                                                          *)
(* Three specifications share the module:                                   *)
(*   Spec         one run of PackageSyncRun.perform_sync                    *)
(*   SpecResolve  _resolve_new_units / _resolve_remove_units on arbitrary   *)
(*                key lists                                                 *)
(*   SpecReport   PublishProgressReport.build_final_report on arbitrary     *)
(*                reports                                                   *)
(***************************************************************************)
EXTENDS Integers, Sequences, FiniteSets, TLC

\* ------------------------------------------------------------------ bounds

\* longest package list the remote index advertises (duplicates included)
MaxIndexLen == 2

\* longest key list given to the _resolve_* functions in SpecResolve
MaxKeyListLen == 3

\* ------------------------------------------------- constants of the program

STATE_NOT_STARTED == "not-started"
STATE_RUNNING == "running"
STATE_SUCCESS == "success"
STATE_FAILED == "failed"
STATE_SKIPPED == "skipped"

States == {STATE_NOT_STARTED, STATE_RUNNING, STATE_SUCCESS, STATE_FAILED, STATE_SKIPPED}

CONFIG_REMOVE_MISSING == "remove_missing"
DEFAULT_REMOVE_MISSING == FALSE

\* ------------------------------------------------------------ Python values

\* Python's None and a present value v, for the fields that are None until set
None == << >>
Some(v) == << v >>

ToSet(s) == {s[i] : i \in DOMAIN s}

SeqsUpTo(S, n) == UNION {[1..m -> S] : m \in 0..n}

\* list(a_set): the elements of S once each, in an order Python does not fix
Orderings(S) == {s \in [1..Cardinality(S) -> S] : \A i, j \in 1..Cardinality(S) : i # j => s[i] # s[j]}

Prefixes(s) == {SubSeq(s, 1, n) : n \in 0..Len(s)}

\* ------------------------------------------------------------ the packages

\* identity keys, u'%(package)s-%(version)s-%(maintainer)s'
Keys == {"A-1.0-alice", "B-2.0-bob", "C-1.0-carol"}

\* the Package records the remote index can list: two binary packages of one
\* resource each and one source package of two resources
Catalogue == {[key |-> "A-1.0-alice", package_type |-> "package", resources |-> 1],
              [key |-> "B-2.0-bob", package_type |-> "package", resources |-> 1],
              [key |-> "C-1.0-carol", package_type |-> "source", resources |-> 2]}

\* dict([(p.key, p) for p in self.dist.packages]): a later entry replaces an
\* earlier one with the same key
packages_by_key(packages) == [k \in {p.key : p \in ToSet(packages)} |-> packages[CHOOSE i \in DOMAIN packages : packages[i].key = k /\ \A j \in DOMAIN packages : packages[j].key = k => j <= i]]


\* ------------------------------------------------------ the progress report

\* reporting.format_exception / format_traceback: the text of an error object
\* (None stays None)
format_exception(e) == IF e = None THEN None ELSE Some([type |-> "text", of |-> e[1].of])

\* an exception object raised for `cause`
ExceptionOf(cause) == Some([type |-> "exception", of |-> cause])

\* the report after __init__: every phase not started, every count None
InitialReport == [resource_state |-> STATE_NOT_STARTED,
                  state |-> STATE_NOT_STARTED,
                  execution_time |-> None,
                  error_message |-> None,
                  exception |-> None,
                  packages_state |-> STATE_NOT_STARTED,
                  packages_execution_time |-> None,
                  packages_total_count |-> None,
                  packages_finished_count |-> None,
                  packages_error_count |-> None,
                  packages_individual_errors |-> None,
                  packages_error_message |-> None,
                  packages_exception |-> None]

\* the fields build_final_report reads, taken from the report of a sync run:
\* its index phase is the one _update_dist marks success or failed
final_report_fields(r) == [metadata_state |-> r.state, metadata_execution_time |-> r.execution_time, packages_state |-> r.packages_state, packages_execution_time |-> r.packages_execution_time]

build_final_report_counts_publish(r) == [summary |-> [total_execution_time |-> IF r.metadata_execution_time # None /\ r.packages_execution_time # None THEN r.metadata_execution_time[1] + r.packages_execution_time[1] ELSE -1], outcome |-> IF Cardinality({i \in 1..3 : <<r.metadata_state, r.packages_state, r.publish_http>>[i] # STATE_SUCCESS}) = 0 THEN "success_report" ELSE "failure_report"]

\* build_final_report: the total time when both phases have one, and a
\* success report iff no step state differs from STATE_SUCCESS
build_final_report(r) == [summary |-> [total_execution_time |-> IF r.metadata_execution_time # None /\ r.packages_execution_time # None THEN r.metadata_execution_time[1] + r.packages_execution_time[1] ELSE -1], outcome |-> IF Cardinality({i \in 1..2 : <<r.metadata_state, r.packages_state>>[i] # STATE_SUCCESS}) = 0 THEN "success_report" ELSE "failure_report"]

\* build_progress_report: the snapshot pushed to the conduit; error objects
\* leave as text
build_progress_report(r) == [r EXCEPT !.exception = format_exception(@), !.packages_exception = format_exception(@)]

\* add_failed_package(package, e, traceback): one more error, and the
\* formatted error under the package's identity key
add_failed_package(r, package, cause) == [r EXCEPT !.packages_error_count = Some(@[1] + 1), !.packages_individual_errors = Some([k \in (IF @ = None THEN {} ELSE DOMAIN @[1]) \cup {package.key} |-> IF k = package.key THEN format_exception(ExceptionOf(cause))[1] ELSE @[1][k]])]

\* ---------------------------------------------------------------- the state

VARIABLES
    pc,               \* position of the run in perform_sync
    config,           \* the run configuration (the keys this model reads)
    remote_index,     \* the package list the remote index document holds
    dist_packages,    \* self.dist.packages
    store,            \* identity keys of the units the store conduit holds
    store_before,     \* the store when the run began
    progress_report,  \* self.progress_report
    new_unit_keys,    \* new_unit_keys of _do_import_packages
    remove_unit_keys, \* remove_unit_keys of _do_import_packages
    next_new,         \* index of the next key of the add loop
    next_remove,      \* index of the next key of the removal loop
    raised,           \* what made _do_import_packages raise, None if nothing
    log,              \* every call made to a collaborator, in order
    pushes,           \* the snapshots update_progress gave conduit.set_progress
    returned,         \* the report perform_sync returned, None while running
    existing_unit_keys, \* SpecResolve: first argument of _resolve_*
    found_unit_keys,    \* SpecResolve: second argument of _resolve_*
    resolved,           \* SpecResolve: the two results, None before the call
    pub,                \* SpecReport: a PublishProgressReport
    pub_final,          \* SpecReport: what build_final_report built, None before
    pub_dict,           \* SpecReport: what build_progress_report built, None before
    pub_back,           \* SpecReport: what from_progress_dict made of pub_dict
    orders,             \* SpecOrder: two processing orders of one set of new keys
    outcome_of,         \* SpecOrder: what _add_new_package does for each new key
    ordered             \* SpecOrder: what the add loop left for each order

run_vars == <<pc, config, remote_index, dist_packages, store, store_before, progress_report, new_unit_keys, remove_unit_keys, next_new, next_remove, raised, log, pushes, returned>>

resolve_vars == <<existing_unit_keys, found_unit_keys, resolved>>

report_vars == <<pub, pub_final, pub_dict, pub_back>>

order_vars == <<orders, outcome_of, ordered>>

vars == <<run_vars, resolve_vars, report_vars, order_vars>>

\* the add loop alone is not part of this specification
OrderIdle == /\ orders = None
             /\ outcome_of = None
             /\ ordered = None

\* one call to a collaborator: what was called, for which package, for which
\* of its resources (0: none or the parent unit), and whether it returned
Call(op, key, part, ok) == [op |-> op, key |-> key, part |-> part, ok |-> ok]

\* ------------------------------------------------------- sync.py, helpers

\* duration.seconds of an elapsed time
Durations == {0}

\* _resolve_new_units: list(set(found_unit_keys) - set(existing_unit_keys)),
\* the lists Python may build from that set
_resolve_new_units_keeps_duplicates(existing, found) == {SelectSeq(found, LAMBDA k : k \notin ToSet(existing))}

_resolve_new_units_all_found(existing, found) == Orderings(ToSet(found))

_resolve_new_units(existing, found) == Orderings(ToSet(found) \ ToSet(existing))

\* _resolve_remove_units: list(set(existing_unit_keys) - set(found_unit_keys))
_resolve_remove_units_all_existing(existing, found) == Orderings(ToSet(existing))

_resolve_remove_units(existing, found) == Orderings(ToSet(existing) \ ToSet(found))

\* _should_remove_missing: the default when the key is absent, else its value
_should_remove_missing_defaults_to_true(c) == IF CONFIG_REMOVE_MISSING \notin DOMAIN c THEN TRUE ELSE c[CONFIG_REMOVE_MISSING]

_should_remove_missing(c) == IF CONFIG_REMOVE_MISSING \notin DOMAIN c THEN DEFAULT_REMOVE_MISSING ELSE c[CONFIG_REMOVE_MISSING]

\* _content_units_from_package: one download of the package's resources, then
\* for each resource init_unit and the copy to its storage path
content_unit_calls(p) == <<Call("download_resources", p.key, 0, TRUE)>> \o [j \in 1..(2 * p.resources) |-> IF j % 2 = 1 THEN Call("init_unit", p.key, (j + 1) \div 2, TRUE) ELSE Call("copy", p.key, j \div 2, TRUE)]

\* _add_new_package after the content units exist: for a source package the
\* parent is initialised and saved, then every unit is saved and, under a
\* parent, linked to it
save_unit_calls(p) == IF p.package_type = "source" THEN <<Call("init_unit", p.key, 0, TRUE), Call("save_unit", p.key, 0, TRUE)>> \o [j \in 1..(2 * p.resources) |-> IF j % 2 = 1 THEN Call("save_unit", p.key, (j + 1) \div 2, TRUE) ELSE Call("link_unit", p.key, j \div 2, TRUE)] ELSE [j \in 1..p.resources |-> Call("save_unit", p.key, j, TRUE)]

\* every call _add_new_package makes when nothing raises
add_new_package_calls_saves_as_copied(p) == LET m == IF p.package_type = "source" THEN 4 ELSE 3
                                                ops == <<"init_unit", "copy", "save_unit", "link_unit">>
                                            IN <<Call("download_resources", p.key, 0, TRUE)>> \o (IF p.package_type = "source" THEN <<Call("init_unit", p.key, 0, TRUE), Call("save_unit", p.key, 0, TRUE)>> ELSE << >>) \o [j \in 1..(m * p.resources) |-> Call(ops[((j - 1) % m) + 1], p.key, ((j - 1) \div m) + 1, TRUE)]

add_new_package_calls(p) == content_unit_calls(p) \o save_unit_calls(p)

\* what the failing call raises
CausesOf(op) == IF op = "download_resources" THEN {"FetchError", "Cancelled"} ELSE IF op = "copy" THEN {"IOError"} ELSE {"StoreError"}

\* the ways one _add_new_package can go: fail_at = 0 when every call returns,
\* else the position of the call that raises
AddOutcomes(p) == {[fail_at |-> 0, cause |-> "none"]} \cup UNION {{[fail_at |-> f, cause |-> c] : c \in CausesOf(add_new_package_calls(p)[f].op)} : f \in 1..Len(add_new_package_calls(p))}

\* the calls _add_new_package makes under an outcome: all of them, or those up
\* to the one that raises
_add_new_package(p, outcome) == IF outcome.fail_at = 0 THEN add_new_package_calls(p) ELSE [j \in 1..outcome.fail_at |-> IF j = outcome.fail_at THEN [add_new_package_calls(p)[j] EXCEPT !.ok = FALSE] ELSE add_new_package_calls(p)[j]]

\* the keys save_unit stored among a sequence of calls
SavedKeys(calls) == {calls[j].key : j \in {i \in DOMAIN calls : calls[i].op = "save_unit" /\ calls[i].ok}}

update_progress_call == Call("update_progress", "", 0, TRUE)

build_final_report_call == Call("build_final_report", "", 0, TRUE)

\* ------------------------------------------------------ sync.py, the run

IndexOutcomes == {"ok", "ConfigurationError", "FetchError", "Cancelled", "ParseError"}

RemoveMissingConfigs == {<< >>} \cup {[k \in {CONFIG_REMOVE_MISSING} |-> b] : b \in BOOLEAN}

\* __init__: a fresh report, a Distribution without packages, nothing called
Init == /\ pc = "start"
        /\ config \in RemoveMissingConfigs
        /\ remote_index \in SeqsUpTo(Catalogue, MaxIndexLen)
        /\ dist_packages = << >>
        /\ store \in SUBSET Keys
        /\ store_before = store
        /\ progress_report = InitialReport
        /\ new_unit_keys = << >>
        /\ remove_unit_keys = << >>
        /\ next_new = 1
        /\ next_remove = 1
        /\ raised = None
        /\ log = << >>
        /\ pushes = << >>
        /\ returned = None
        /\ existing_unit_keys = << >>
        /\ found_unit_keys = << >>
        /\ resolved = None
        /\ pub = None
        /\ pub_final = None
        /\ pub_dict = None
        /\ pub_back = None
        /\ OrderIdle

\* the calls _update_dist makes to fetch and parse the index under an outcome
update_dist_calls(outcome) == IF outcome = "ConfigurationError" THEN <<Call("get_downloader", "index", 0, FALSE)>> ELSE IF outcome \in {"FetchError", "Cancelled"} THEN <<Call("get_downloader", "index", 0, TRUE), Call("download_resources", "index", 0, FALSE)>> ELSE <<Call("get_downloader", "index", 0, TRUE), Call("download_resources", "index", 0, TRUE), Call("update_from_resources", "index", 0, outcome = "ok")>>

\* the report _update_dist leaves: the failure recorded by the except clause
\* that caught it, or success
update_dist_report_keeps_state(r, outcome, seconds) == IF outcome = "ok" THEN [r EXCEPT !.state = STATE_SUCCESS, !.execution_time = Some(seconds)] ELSE [r EXCEPT !.error_message = Some(IF outcome = "ParseError" THEN "Error parsing repository packages resources document" ELSE "Error downloading resources"), !.exception = ExceptionOf(outcome), !.execution_time = Some(seconds)]

update_dist_report(r, outcome, seconds) == IF outcome = "ok" THEN [r EXCEPT !.state = STATE_SUCCESS, !.execution_time = Some(seconds)] ELSE [r EXCEPT !.state = STATE_FAILED, !.error_message = Some(IF outcome = "ParseError" THEN "Error parsing repository packages resources document" ELSE "Error downloading resources"), !.exception = ExceptionOf(outcome), !.execution_time = Some(seconds)]

\* _update_dist: mark the retrieval running and push; fetch the index
\* resources and parse them; record success or the failure and push again.
\* A parse that raises may have filled part of the package list.
update_dist == /\ pc = "start"
               /\ \E outcome \in IndexOutcomes, seconds \in Durations :
                     LET running == [progress_report EXCEPT !.resource_state = STATE_RUNNING]
                         after == update_dist_report(running, outcome, seconds)
                     IN /\ progress_report' = after
                        /\ pushes' = pushes \o <<build_progress_report(running), build_progress_report(after)>>
                        /\ log' = log \o <<update_progress_call>> \o update_dist_calls(outcome) \o <<update_progress_call>>
                        /\ dist_packages' \in (IF outcome = "ok" THEN {remote_index} ELSE IF outcome = "ParseError" THEN Prefixes(remote_index) ELSE {dist_packages})
               /\ pc' = "check_packages"
               /\ UNCHANGED <<config, remote_index, store, store_before, new_unit_keys, remove_unit_keys, next_new, next_remove, raised, returned, resolve_vars, report_vars, order_vars>>

\* perform_sync after _update_dist: an empty package list ends the run with a
\* first build_final_report (the finally clause still follows); otherwise the
\* packages are imported
check_packages_goes_on_always(packages, r) == TRUE

check_packages_goes_on(packages, r) == Len(packages) # 0

check_packages == /\ pc = "check_packages"
                  /\ IF check_packages_goes_on(dist_packages, progress_report) THEN /\ pc' = "import_packages"
                                                                                     /\ log' = log
                                                                                ELSE /\ pc' = "finally"
                                                                                     /\ log' = Append(log, build_final_report_call)
                  /\ UNCHANGED <<config, remote_index, dist_packages, store, store_before, progress_report, new_unit_keys, remove_unit_keys, next_new, next_remove, raised, pushes, returned, resolve_vars, report_vars, order_vars>>

\* where _do_import_packages stands once `n` new keys are done
AfterAdd(n, keys) == IF n > Len(keys) THEN "remove_missing" ELSE "add_new_units"

\* the total count the import starts with: the number of new keys
total_count_of_package_list(new_keys, packages) == Len(packages)

total_count(new_keys, packages) == Len(new_keys)

\* the counts once the new keys are known
set_counts_without_error_count(r, total) == [r EXCEPT !.packages_total_count = Some(total), !.packages_finished_count = Some(0)]

set_counts(r, total) == [r EXCEPT !.packages_total_count = Some(total), !.packages_finished_count = Some(0), !.packages_error_count = Some(0)]

\* the snapshots pushed between marking the import running and entering the
\* add loop: none while the counts are unset, one once they are set
import_begin_pushes_before_counts(running, counted) == <<build_progress_report(running), build_progress_report(counted)>>

import_begin_pushes(running, counted) == <<build_progress_report(counted)>>

\* one update_progress call for each snapshot pushed
update_progress_calls(snapshots) == [i \in DOMAIN snapshots |-> Call("update_progress", "", 0, TRUE)]

\* _import_packages up to the add loop of _do_import_packages: mark the import
\* running without a push, read the existing units, resolve the new and the
\* missing keys, set the three counts and push
import_packages_begin == /\ pc = "import_packages"
                         /\ \E existing \in Orderings(store), found \in Orderings(DOMAIN packages_by_key(dist_packages)) :
                               /\ new_unit_keys' \in _resolve_new_units(existing, found)
                               /\ remove_unit_keys' \in _resolve_remove_units(existing, found)
                         /\ progress_report' = set_counts([progress_report EXCEPT !.packages_state = STATE_RUNNING], total_count(new_unit_keys', dist_packages))
                         /\ LET pushed == import_begin_pushes([progress_report EXCEPT !.packages_state = STATE_RUNNING], progress_report')
                            IN /\ pushes' = pushes \o pushed
                               /\ log' = log \o <<Call("get_downloader", "", 0, TRUE), Call("get_units", "", 0, TRUE)>> \o update_progress_calls(pushed)
                         /\ next_new' = 1
                         /\ next_remove' = 1
                         /\ pc' = AfterAdd(1, new_unit_keys')
                         /\ UNCHANGED <<config, remote_index, dist_packages, store, store_before, raised, returned, resolve_vars, report_vars, order_vars>>

\* the except clause of _import_packages: the import failed as a whole
import_packages_failed_without_message(r, cause, seconds) == [r EXCEPT !.packages_state = STATE_FAILED, !.packages_exception = ExceptionOf(cause), !.packages_execution_time = Some(seconds)]

import_packages_failed(r, cause, seconds) == [r EXCEPT !.packages_state = STATE_FAILED, !.packages_error_message = Some("Error retrieving packages"), !.packages_exception = ExceptionOf(cause), !.packages_execution_time = Some(seconds)]

\* the try statement of the add loop: the finished count goes up when
\* _add_new_package returns, add_failed_package records the package when it
\* raises; `raised` is what leaves the try statement
add_loop_try_without_except(r, package, outcome) == IF outcome.fail_at = 0 THEN [report |-> [r EXCEPT !.packages_finished_count = Some(@[1] + 1)], raised |-> None] ELSE [report |-> r, raised |-> Some(outcome.cause)]

add_loop_try_counts_before_call(r, package, outcome) == LET counted == [r EXCEPT !.packages_finished_count = Some(@[1] + 1)] IN IF outcome.fail_at = 0 THEN [report |-> counted, raised |-> None] ELSE [report |-> add_failed_package(counted, package, outcome.cause), raised |-> None]

add_loop_try_swallows(r, package, outcome) == IF outcome.fail_at = 0 THEN [report |-> [r EXCEPT !.packages_finished_count = Some(@[1] + 1)], raised |-> None] ELSE [report |-> r, raised |-> None]

add_loop_try_cancel_propagates(r, package, outcome) == IF outcome.fail_at = 0 THEN [report |-> [r EXCEPT !.packages_finished_count = Some(@[1] + 1)], raised |-> None] ELSE IF r.packages_error_count = None THEN [report |-> r, raised |-> Some("TypeError")] ELSE IF outcome.cause = "Cancelled" THEN [report |-> r, raised |-> Some("Cancelled")] ELSE [report |-> add_failed_package(r, package, outcome.cause), raised |-> None]

add_loop_try_counts_error_itself(r, package, outcome) == IF outcome.fail_at = 0 THEN [report |-> [r EXCEPT !.packages_finished_count = Some(@[1] + 1)], raised |-> None] ELSE IF r.packages_error_count = None THEN [report |-> r, raised |-> Some("TypeError")] ELSE [report |-> add_failed_package([r EXCEPT !.packages_error_count = Some(@[1] + 1)], package, outcome.cause), raised |-> None]

add_loop_try(r, package, outcome) == IF outcome.fail_at = 0 THEN [report |-> [r EXCEPT !.packages_finished_count = Some(@[1] + 1)], raised |-> None] ELSE IF r.packages_error_count = None THEN [report |-> r, raised |-> Some("TypeError")] ELSE [report |-> add_failed_package(r, package, outcome.cause), raised |-> None]

\* the snapshot pushed at the end of a turn of the add loop, whether the
\* package was imported or failed
add_loop_pushes_when_imported(r, outcome) == IF outcome.fail_at = 0 THEN <<build_progress_report(r)>> ELSE << >>

add_loop_pushes(r, outcome) == <<build_progress_report(r)>>

\* one turn of the add loop: _add_new_package for the next new key, the try
\* statement around it, then a push. What leaves the try statement ends
\* _do_import_packages and is handled by _import_packages.
add_new_units == /\ pc = "add_new_units"
                 /\ LET package == packages_by_key(dist_packages)[new_unit_keys[next_new]]
                    IN \E outcome \in AddOutcomes(package), seconds \in Durations :
                          LET calls == _add_new_package(package, outcome)
                              tried == add_loop_try(progress_report, package, outcome)
                              called == log \o <<Call("_add_new_package", package.key, 0, outcome.fail_at = 0)>> \o calls \o (IF outcome.fail_at = 0 THEN << >> ELSE <<Call("add_failed_package", package.key, 0, tried.raised = None)>>)
                          IN /\ store' = store \cup SavedKeys(calls)
                             /\ raised' = tried.raised
                             /\ IF tried.raised = None
                                   THEN /\ progress_report' = tried.report
                                        /\ pushes' = pushes \o add_loop_pushes(tried.report, outcome)
                                        /\ log' = called \o update_progress_calls(add_loop_pushes(tried.report, outcome))
                                        /\ next_new' = next_new + 1
                                        /\ pc' = AfterAdd(next_new + 1, new_unit_keys)
                                   ELSE /\ progress_report' = import_packages_failed(tried.report, tried.raised[1], seconds)
                                        /\ pushes' = Append(pushes, build_progress_report(progress_report'))
                                        /\ log' = Append(called, update_progress_call)
                                        /\ next_new' = next_new
                                        /\ pc' = "finally"
                 /\ UNCHANGED <<config, remote_index, dist_packages, store_before, new_unit_keys, remove_unit_keys, next_remove, returned, resolve_vars, report_vars, order_vars>>

\* one turn of the removal loop, entered when the configuration asks for it:
\* remove_unit for the next missing key. A remove_unit that raises ends
\* _do_import_packages and is handled by _import_packages.
remove_missing_units == /\ pc = "remove_missing"
                        /\ _should_remove_missing(config)
                        /\ next_remove <= Len(remove_unit_keys)
                        /\ \E ok \in BOOLEAN, seconds \in Durations :
                              /\ log' = log \o <<Call("remove_unit", remove_unit_keys[next_remove], 0, ok)>> \o (IF ok THEN << >> ELSE <<update_progress_call>>)
                              /\ IF ok
                                    THEN /\ store' = store \ {remove_unit_keys[next_remove]}
                                         /\ next_remove' = next_remove + 1
                                         /\ UNCHANGED <<progress_report, pushes, raised, pc>>
                                    ELSE /\ raised' = Some("StoreError")
                                         /\ progress_report' = import_packages_failed(progress_report, "StoreError", seconds)
                                         /\ pushes' = Append(pushes, build_progress_report(progress_report'))
                                         /\ pc' = "finally"
                                         /\ UNCHANGED <<store, next_remove>>
                        /\ UNCHANGED <<config, remote_index, dist_packages, store_before, new_unit_keys, remove_unit_keys, next_new, returned, resolve_vars, report_vars, order_vars>>

\* the report once _do_import_packages has returned: the import is a success,
\* whatever the error count
import_packages_succeeded_unless_errors(r, seconds) == [r EXCEPT !.packages_state = IF r.packages_error_count = Some(0) THEN STATE_SUCCESS ELSE STATE_FAILED, !.packages_execution_time = Some(seconds)]

import_packages_succeeded(r, seconds) == [r EXCEPT !.packages_state = STATE_SUCCESS, !.packages_execution_time = Some(seconds)]

\* _do_import_packages returned: _import_packages marks the import a success
\* and pushes
import_packages_end == /\ pc = "remove_missing"
                       /\ ~_should_remove_missing(config) \/ next_remove > Len(remove_unit_keys)
                       /\ \E seconds \in Durations : progress_report' = import_packages_succeeded(progress_report, seconds)
                       /\ pushes' = Append(pushes, build_progress_report(progress_report'))
                       /\ log' = Append(log, update_progress_call)
                       /\ pc' = "finally"
                       /\ UNCHANGED <<config, remote_index, dist_packages, store, store_before, new_unit_keys, remove_unit_keys, next_new, next_remove, raised, returned, resolve_vars, report_vars, order_vars>>

\* the report calls of the finally clause, in order
finally_calls_without_push == <<build_final_report_call>>

finally_calls == <<update_progress_call, build_final_report_call>>

\* the finally clause of perform_sync: one last push, then the final report,
\* which is what perform_sync returns
perform_sync_finally == /\ pc = "finally"
                        /\ pushes' = pushes \o [i \in DOMAIN SelectSeq(finally_calls, LAMBDA c : c.op = "update_progress") |-> build_progress_report(progress_report)]
                        /\ log' = log \o finally_calls
                        /\ returned' = Some(build_final_report(final_report_fields(progress_report)))
                        /\ pc' = "done"
                        /\ UNCHANGED <<config, remote_index, dist_packages, store, store_before, progress_report, new_unit_keys, remove_unit_keys, next_new, next_remove, raised, resolve_vars, report_vars, order_vars>>

Next == \/ update_dist
        \/ check_packages
        \/ import_packages_begin
        \/ add_new_units
        \/ remove_missing_units
        \/ import_packages_end
        \/ perform_sync_finally

Spec == Init /\ [][Next]_vars

\* ------------------------------------------- the _resolve_* functions alone

\* the run is not part of this specification
RunIdle == /\ pc = "idle"
           /\ config = << >>
           /\ remote_index = << >>
           /\ dist_packages = << >>
           /\ store = {}
           /\ store_before = {}
           /\ progress_report = InitialReport
           /\ new_unit_keys = << >>
           /\ remove_unit_keys = << >>
           /\ next_new = 1
           /\ next_remove = 1
           /\ raised = None
           /\ log = << >>
           /\ pushes = << >>
           /\ returned = None

InitResolve == /\ RunIdle
               /\ existing_unit_keys \in SeqsUpTo(Keys, MaxKeyListLen)
               /\ found_unit_keys \in SeqsUpTo(Keys, MaxKeyListLen)
               /\ resolved = None
               /\ pub = None
               /\ pub_final = None
               /\ pub_dict = None
               /\ pub_back = None
               /\ OrderIdle

\* the two calls of _do_import_packages, on any two key lists
resolve_units == /\ resolved = None
                 /\ \E new \in _resolve_new_units(existing_unit_keys, found_unit_keys), remove \in _resolve_remove_units(existing_unit_keys, found_unit_keys) : resolved' = Some([new |-> new, remove |-> remove])
                 /\ UNCHANGED <<run_vars, existing_unit_keys, found_unit_keys, report_vars, order_vars>>

NextResolve == resolve_units

SpecResolve == InitResolve /\ [][NextResolve]_vars

\* --------------------------------------------- PublishProgressReport alone

Times == {None, Some(0), Some(1)}

\* the text a traceback is reported as
format_traceback(tb) == IF tb = None THEN None ELSE Some([type |-> "text", of |-> tb[1].of])

TracebackOf(cause) == Some([type |-> "traceback", of |-> cause])

\* a report as __init__ leaves it
PublishProgressReport(conduit) == [conduit |-> conduit,
                                   packages_state |-> STATE_NOT_STARTED,
                                   packages_execution_time |-> None,
                                   packages_total_count |-> None,
                                   packages_finished_count |-> None,
                                   packages_error_count |-> None,
                                   packages_individual_errors |-> None,
                                   packages_error_message |-> None,
                                   packages_exception |-> None,
                                   packages_traceback |-> None,
                                   metadata_state |-> STATE_NOT_STARTED,
                                   metadata_execution_time |-> None,
                                   metadata_error_message |-> None,
                                   metadata_exception |-> None,
                                   metadata_traceback |-> None,
                                   publish_http |-> STATE_NOT_STARTED,
                                   publish_https |-> STATE_NOT_STARTED]

\* what a publish run may have written to the counts, the errors and the
\* messages of its report: nothing; counts and one package error; counts, a
\* package error and a failure of the packages step; a failure of the
\* metadata step
PublishDetails == LET fresh == PublishProgressReport(Some("conduit"))
                      errors == Some([k \in {"A-1.0-alice"} |-> format_traceback(TracebackOf("IOError"))[1]])
                  IN {fresh,
                      [fresh EXCEPT !.packages_total_count = Some(2), !.packages_finished_count = Some(0), !.packages_error_count = Some(1), !.packages_individual_errors = errors],
                      [fresh EXCEPT !.packages_total_count = Some(2), !.packages_finished_count = Some(1), !.packages_error_count = Some(1), !.packages_individual_errors = errors, !.packages_error_message = Some("packages step failed"), !.packages_exception = ExceptionOf("IOError"), !.packages_traceback = TracebackOf("IOError")],
                      [fresh EXCEPT !.metadata_error_message = Some("metadata step failed"), !.metadata_exception = ExceptionOf("IOError"), !.metadata_traceback = TracebackOf("IOError")]}

\* the reports the methods are applied to: any state of the two steps and of
\* the two publish fields, with or without execution times, with any of the
\* details
PublishReports == {[d EXCEPT !.metadata_state = ms, !.metadata_execution_time = mt, !.packages_state = ps, !.packages_execution_time = pt, !.publish_http = http, !.publish_https = https] : d \in PublishDetails, ms \in States, mt \in Times, ps \in States, pt \in Times, http \in States, https \in States}

_packages_section(r) == [state |-> r.packages_state,
                         execution_time |-> r.packages_execution_time,
                         total_count |-> r.packages_total_count,
                         finished_count |-> r.packages_finished_count,
                         error_count |-> r.packages_error_count,
                         individual_errors |-> r.packages_individual_errors,
                         error_message |-> r.packages_error_message,
                         error |-> format_exception(r.packages_exception),
                         traceback |-> format_traceback(r.packages_traceback)]

_metadata_section(r) == [state |-> r.metadata_state,
                         execution_time |-> r.metadata_execution_time,
                         error_message |-> r.metadata_error_message,
                         error |-> format_exception(r.metadata_exception),
                         traceback |-> format_traceback(r.metadata_traceback)]

_publishing_section(r) == [http |-> r.publish_http, https |-> r.publish_https]

\* PublishProgressReport.build_progress_report
publish_progress_dict(r) == [packages |-> _packages_section(r), metadata |-> _metadata_section(r), publishing |-> _publishing_section(r)]

from_progress_dict_finished_from_error(report) == [PublishProgressReport(None) EXCEPT !.packages_state = report.packages.state,
                                                                                      !.packages_execution_time = report.packages.execution_time,
                                                                                      !.packages_total_count = report.packages.total_count,
                                                                                      !.packages_finished_count = report.packages.error_count,
                                                                                      !.packages_error_count = report.packages.error_count,
                                                                                      !.packages_individual_errors = report.packages.individual_errors,
                                                                                      !.packages_error_message = report.packages.error_message,
                                                                                      !.packages_exception = report.packages.error,
                                                                                      !.packages_traceback = report.packages.traceback,
                                                                                      !.metadata_state = report.metadata.state,
                                                                                      !.metadata_execution_time = report.metadata.execution_time,
                                                                                      !.metadata_error_message = report.metadata.error_message,
                                                                                      !.metadata_exception = report.metadata.error,
                                                                                      !.metadata_traceback = report.metadata.traceback,
                                                                                      !.publish_http = report.publishing.http,
                                                                                      !.publish_https = report.publishing.https]

from_progress_dict(report) == [PublishProgressReport(None) EXCEPT !.packages_state = report.packages.state,
                                                                  !.packages_execution_time = report.packages.execution_time,
                                                                  !.packages_total_count = report.packages.total_count,
                                                                  !.packages_finished_count = report.packages.finished_count,
                                                                  !.packages_error_count = report.packages.error_count,
                                                                  !.packages_individual_errors = report.packages.individual_errors,
                                                                  !.packages_error_message = report.packages.error_message,
                                                                  !.packages_exception = report.packages.error,
                                                                  !.packages_traceback = report.packages.traceback,
                                                                  !.metadata_state = report.metadata.state,
                                                                  !.metadata_execution_time = report.metadata.execution_time,
                                                                  !.metadata_error_message = report.metadata.error_message,
                                                                  !.metadata_exception = report.metadata.error,
                                                                  !.metadata_traceback = report.metadata.traceback,
                                                                  !.publish_http = report.publishing.http,
                                                                  !.publish_https = report.publishing.https]

InitReport == /\ RunIdle
              /\ existing_unit_keys = << >>
              /\ found_unit_keys = << >>
              /\ resolved = None
              /\ pub \in PublishReports
              /\ pub_final = None
              /\ pub_dict = None
              /\ pub_back = None
              /\ OrderIdle

publish_build_final_report == /\ pub_final = None
                              /\ pub_final' = Some(build_final_report(pub))
                              /\ UNCHANGED <<run_vars, resolve_vars, pub, pub_dict, pub_back, order_vars>>

\* build_progress_report on the report
publish_build_progress_report == /\ pub_dict = None
                                 /\ pub_dict' = Some(publish_progress_dict(pub))
                                 /\ UNCHANGED <<run_vars, resolve_vars, pub, pub_final, pub_back, order_vars>>

\* from_progress_dict on the dict build_progress_report built, as the client
\* side does
publish_from_progress_dict == /\ pub_dict # None
                              /\ pub_back = None
                              /\ pub_back' = Some(from_progress_dict(pub_dict[1]))
                              /\ UNCHANGED <<run_vars, resolve_vars, pub, pub_final, pub_dict, order_vars>>

NextReport == \/ publish_build_final_report
              \/ publish_build_progress_report
              \/ publish_from_progress_dict

SpecReport == InitReport /\ [][NextReport]_vars

\* ------------------------------------------------------- the add loop alone

\* the package of the index with the key `k`
PackageOf(k) == CHOOSE p \in Catalogue : p.key = k

\* the assignments of one outcome of _add_new_package to each key of `S`
OutcomeMaps(S) == {f \in [S -> UNION {AddOutcomes(PackageOf(k)) : k \in S}] : \A k \in S : f[k] \in AddOutcomes(PackageOf(k))}

\* the report when the add loop begins: the index was retrieved, the import
\* is running and the counts are set
ReportBeforeLoop(total) == set_counts([InitialReport EXCEPT !.resource_state = STATE_RUNNING, !.state = STATE_SUCCESS, !.execution_time = Some(0), !.packages_state = STATE_RUNNING], total)

\* the add loop of _do_import_packages over `keys` in the order given, from
\* the report `r` and the stored units `units`, each package with the
\* outcome `outcomes` gives it: the report and the store it leaves, and what
\* it raised
RECURSIVE add_loop(_, _, _, _)

add_loop_without_except(r, units, keys, outcomes) == IF keys = << >> THEN [report |-> r, store |-> units, raised |-> None]
                                                     ELSE LET package == PackageOf(Head(keys))
                                                              tried == add_loop_try(r, package, outcomes[Head(keys)])
                                                              saved == units \cup SavedKeys(_add_new_package(package, outcomes[Head(keys)]))
                                                          IN IF tried.raised # None \/ outcomes[Head(keys)].fail_at # 0 THEN [report |-> r, store |-> saved, raised |-> Some(outcomes[Head(keys)].cause)]
                                                                                                                         ELSE add_loop(tried.report, saved, Tail(keys), outcomes)

add_loop(r, units, keys, outcomes) == IF keys = << >> THEN [report |-> r, store |-> units, raised |-> None]
                                      ELSE LET package == PackageOf(Head(keys))
                                               tried == add_loop_try(r, package, outcomes[Head(keys)])
                                               saved == units \cup SavedKeys(_add_new_package(package, outcomes[Head(keys)]))
                                           IN IF tried.raised # None THEN [report |-> tried.report, store |-> saved, raised |-> tried.raised]
                                                                     ELSE add_loop(tried.report, saved, Tail(keys), outcomes)

\* _import_packages around the add loop, nothing to remove: the report and
\* the store at the end of the import
import_in_order(keys, outcomes) == LET looped == add_loop(ReportBeforeLoop(Len(keys)), {}, keys, outcomes)
                                   IN [report |-> IF looped.raised = None THEN import_packages_succeeded(looped.report, 0) ELSE import_packages_failed(looped.report, looped.raised[1], 0), store |-> looped.store]

InitOrder == /\ RunIdle
             /\ existing_unit_keys = << >>
             /\ found_unit_keys = << >>
             /\ resolved = None
             /\ pub = None
             /\ pub_final = None
             /\ pub_dict = None
             /\ pub_back = None
             /\ \E S \in SUBSET Keys : /\ orders \in {Some([a |-> x, b |-> y]) : x \in Orderings(S), y \in Orderings(S)}
                                       /\ outcome_of \in {Some(f) : f \in OutcomeMaps(S)}
             /\ ordered = None

\* the import of the same new packages in the two orders
import_in_both_orders == /\ ordered = None
                         /\ ordered' = Some([a |-> import_in_order(orders[1].a, outcome_of[1]), b |-> import_in_order(orders[1].b, outcome_of[1])])
                         /\ UNCHANGED <<run_vars, resolve_vars, report_vars, orders, outcome_of>>

NextOrder == import_in_both_orders

SpecOrder == InitOrder /\ [][NextOrder]_vars

\* ================================================================ claims

\* positions of the calls to `op` in the log
CallsTo(op) == {i \in DOMAIN log : log[i].op = op}

\* positions of the calls to `op` for the package `key`
CallsFor(op, key) == {i \in DOMAIN log : log[i].op = op /\ log[i].key = key}

StoreOps == {"get_units", "init_unit", "save_unit", "link_unit", "remove_unit"}

\* calls made while a new package is processed
AddOps == {"_add_new_package", "download_resources", "init_unit", "copy", "save_unit", "link_unit", "add_failed_package"}

\* identity keys of the package list the run works from
RemoteKeys == {dist_packages[i].key : i \in DOMAIN dist_packages}

\* the add loop of _do_import_packages was entered and is over
AddLoopOver == progress_report.packages_state # STATE_NOT_STARTED /\ pc \in {"remove_missing", "finally", "done"}

\* the index could not be fetched: the downloader factory or the download raised
FetchFailed == \E i \in DOMAIN log : log[i].key = "index" /\ log[i].op \in {"get_downloader", "download_resources"} /\ ~log[i].ok

\* the index was fetched and update_from_resources raised
ParseFailed == \E i \in DOMAIN log : log[i].op = "update_from_resources" /\ ~log[i].ok

RemoveFailed == \E i \in DOMAIN log : log[i].op = "remove_unit" /\ ~log[i].ok

\* C1: failure isolation in the add loop. Once the add loop is over,
\* _add_new_package has been called exactly once for every new key, however
\* many of the calls raised, and nothing raised by a package has left
\* _do_import_packages: if it raised at all, a remove_unit did.
C1_FailureIsolation == AddLoopOver => /\ \A k \in ToSet(new_unit_keys) : Cardinality(CallsFor("_add_new_package", k)) = 1
                                      /\ Cardinality(CallsTo("_add_new_package")) = Len(new_unit_keys)
                                      /\ raised # None => RemoveFailed

\* C1 witness: two new packages, the first raised and the second was still
\* attempted and imported
C1_Witness == /\ pc = "remove_missing"
              /\ Len(new_unit_keys) = 2
              /\ \E i \in CallsFor("add_failed_package", new_unit_keys[1]) : \E j \in CallsFor("_add_new_package", new_unit_keys[2]) : i < j /\ log[j].ok

\* C2: when the downloader cannot be created or the index download raises,
\* the package import never starts, no store operation is ever called, and
\* the report perform_sync returns is a failure report.
C2_FetchFailureLeavesStore == FetchFailed => /\ progress_report.packages_state = STATE_NOT_STARTED
                                             /\ \A i \in DOMAIN log : log[i].op \notin StoreOps
                                             /\ store = store_before
                                             /\ pc = "done" => returned[1].outcome = "failure_report"

\* C2 witness: a run over a non-empty index and a non-empty store ended after
\* the index download raised
C2_Witness == /\ pc = "done"
              /\ FetchFailed
              /\ \E i \in DOMAIN log : log[i].op = "download_resources" /\ ~log[i].ok
              /\ remote_index # << >>
              /\ store # {}

\* C3 (as claimed): when update_from_resources raises, the index phase is
\* marked failed and perform_sync ends without calling _import_packages,
\* whatever the package list holds at that moment.
C3_ParseFailureEndsRun == ParseFailed => /\ progress_report.state = STATE_FAILED
                                         /\ progress_report.packages_state = STATE_NOT_STARTED
                                         /\ pc \in {"check_packages", "finally", "done"}
                                         /\ CallsTo("get_units") = {}

\* C4 (as claimed): when the index was fetched and parsed and lists no
\* package, the run ends with the index phase a success, the import not
\* started, the store untouched and a success report.
C4_EmptyIndexSucceeds == (pc = "done" /\ progress_report.state = STATE_SUCCESS /\ Len(dist_packages) = 0) => /\ progress_report.packages_state = STATE_NOT_STARTED
                                                                                                              /\ \A i \in DOMAIN log : log[i].op \notin StoreOps
                                                                                                              /\ returned[1].outcome = "success_report"

\* C5: build_final_report builds a success report iff the metadata state and
\* the packages state are both success, and builds the same report whatever
\* the two publish states are.
C5_FinalReportOutcome == pub_final # None => /\ pub_final[1].outcome = "success_report" <=> (pub.metadata_state = STATE_SUCCESS /\ pub.packages_state = STATE_SUCCESS)
                                             /\ pub_final[1].outcome \in {"success_report", "failure_report"}
                                             /\ \A http \in States, https \in States : build_final_report([pub EXCEPT !.publish_http = http, !.publish_https = https]) = pub_final[1]

\* C5 witness: a success report built while a publish state is failed
C5_Witness == /\ pub_final # None
              /\ pub_final[1].outcome = "success_report"
              /\ pub.publish_http = STATE_FAILED
              /\ pub.publish_https = STATE_NOT_STARTED

\* C6: for any two key lists, _resolve_new_units returns the found keys that
\* are not existing, _resolve_remove_units the existing keys that are not
\* found, each key once, the two results share no key, and the same results
\* come from the two key sets listed without repetition in any order.
C6_ResolveIsSetDifference == resolved # None => /\ ToSet(resolved[1].new) = ToSet(found_unit_keys) \ ToSet(existing_unit_keys)
                                                /\ ToSet(resolved[1].remove) = ToSet(existing_unit_keys) \ ToSet(found_unit_keys)
                                                /\ ToSet(resolved[1].new) \cap ToSet(resolved[1].remove) = {}
                                                /\ Len(resolved[1].new) = Cardinality(ToSet(resolved[1].new))
                                                /\ Len(resolved[1].remove) = Cardinality(ToSet(resolved[1].remove))
                                                /\ \A e \in Orderings(ToSet(existing_unit_keys)), f \in Orderings(ToSet(found_unit_keys)) : resolved[1].new \in _resolve_new_units(e, f) /\ resolved[1].remove \in _resolve_remove_units(e, f)

\* C6 witness: lists with repeated keys on both sides, a new key and a missing key
C6_Witness == /\ resolved # None
              /\ Len(found_unit_keys) > Cardinality(ToSet(found_unit_keys))
              /\ Len(existing_unit_keys) > Cardinality(ToSet(existing_unit_keys))
              /\ resolved[1].new # << >>
              /\ resolved[1].remove # << >>

\* C7: when the configuration has no remove_missing or has it false, the run
\* never calls remove_unit, and every unit the store held before the run is
\* still in it.
C7_NoRemovalUnlessConfigured == (CONFIG_REMOVE_MISSING \notin DOMAIN config \/ ~config[CONFIG_REMOVE_MISSING]) => /\ CallsTo("remove_unit") = {}
                                                                                                                   /\ store_before \subseteq store

\* C7 witness: a finished import without remove_missing that left in the
\* store a unit the index no longer lists
C7_Witness == /\ pc = "done"
              /\ CONFIG_REMOVE_MISSING \notin DOMAIN config
              /\ progress_report.packages_state = STATE_SUCCESS
              /\ store_before \ RemoteKeys # {}
              /\ new_unit_keys # << >>

C9_CountsAfterAddLoop == AddLoopOver => /\ progress_report.packages_total_count = Some(Cardinality(RemoteKeys \ store_before))
                                        /\ progress_report.packages_finished_count = Some(Cardinality({i \in CallsTo("_add_new_package") : log[i].ok}))
                                        /\ progress_report.packages_error_count = Some(Cardinality({i \in CallsTo("_add_new_package") : ~log[i].ok}))
                                        /\ progress_report.packages_finished_count[1] + progress_report.packages_error_count[1] = progress_report.packages_total_count[1]

\* C9 witness: the add loop is over with two new packages, one imported and
\* one failed
C9_Witness == /\ pc = "remove_missing"
              /\ progress_report.packages_total_count = Some(2)
              /\ progress_report.packages_finished_count = Some(1)
              /\ progress_report.packages_error_count = Some(1)

\* the package the add loop processes next
CurrentKey == new_unit_keys[next_new]

\* the entries of individual_errors, none while it is None
ErrorEntries(r) == IF r.packages_individual_errors = None THEN {} ELSE DOMAIN r.packages_individual_errors[1]

\* a turn of the add loop in which _add_new_package raised
FailedTurn == pc = "add_new_units" /\ \E i \in DOMAIN log' : i > Len(log) /\ log'[i].op = "_add_new_package" /\ ~log'[i].ok

\* a turn of the add loop in which _add_new_package returned
ImportedTurn == pc = "add_new_units" /\ \E i \in DOMAIN log' : i > Len(log) /\ log'[i].op = "_add_new_package" /\ log'[i].ok

\* what a turn whose package raised does to the report
FailedTurnRecorded == /\ progress_report'.packages_error_count = Some(progress_report.packages_error_count[1] + 1)
                      /\ progress_report'.packages_finished_count = progress_report.packages_finished_count
                      /\ ErrorEntries(progress_report') = ErrorEntries(progress_report) \cup {CurrentKey}
                      /\ CurrentKey \notin ErrorEntries(progress_report)
                      /\ progress_report'.packages_individual_errors[1][CurrentKey].type = "text"
                      /\ \A k \in ErrorEntries(progress_report) : progress_report'.packages_individual_errors[1][k] = progress_report.packages_individual_errors[1][k]

\* what a turn whose package was imported leaves alone
ImportedTurnUnrecorded == /\ progress_report'.packages_individual_errors = progress_report.packages_individual_errors
                          /\ progress_report'.packages_error_count = progress_report.packages_error_count
                          /\ CurrentKey \notin ErrorEntries(progress_report')

\* C10: a turn of the add loop whose package raised adds exactly 1 to the
\* error count, leaves the finished count alone and adds one entry to
\* individual_errors, under the package's identity key and holding text; a
\* turn whose package was imported adds no entry, so an imported package
\* never has one.
C10_FailedPackageRecorded == [][(FailedTurn => FailedTurnRecorded) /\ (ImportedTurn => ImportedTurnUnrecorded)]_vars

\* C10 witness: after the add loop one package is recorded as failed under
\* its key and another, imported, has no entry
C10_Witness == /\ pc = "remove_missing"
               /\ Len(new_unit_keys) = 2
               /\ Cardinality(ErrorEntries(progress_report)) = 1
               /\ \E k \in ToSet(new_unit_keys) : k \notin ErrorEntries(progress_report) /\ \E i \in CallsFor("_add_new_package", k) : log[i].ok

\* the run is past _import_packages, which was entered
ImportOver == progress_report.packages_state # STATE_NOT_STARTED /\ pc \in {"finally", "done"}

\* C11: when the index phase was marked a success and _do_import_packages
\* returned without raising, the import ends with state success and the
\* report perform_sync returns is a success report, whatever the error count
\* is, also when every new package failed.
C11_SuccessDespiteErrors == (ImportOver /\ progress_report.state = STATE_SUCCESS /\ raised = None) => /\ progress_report.packages_state = STATE_SUCCESS
                                                                                                      /\ pc = "done" => returned[1].outcome = "success_report"

\* C11 witness: a finished run with two new packages that both failed
C11_Witness == /\ pc = "done"
               /\ progress_report.state = STATE_SUCCESS
               /\ raised = None
               /\ progress_report.packages_total_count = Some(2)
               /\ progress_report.packages_error_count = Some(2)
               /\ returned[1].outcome = "success_report"

\* finished count + error count of a snapshot, 0 while the counts are unset
Progress(snapshot) == IF snapshot.packages_finished_count = None \/ snapshot.packages_error_count = None THEN 0 ELSE snapshot.packages_finished_count[1] + snapshot.packages_error_count[1]

\* the snapshots pushed while the import was running
RunningSnapshots == SelectSeq(pushes, LAMBDA s : s.packages_state = STATE_RUNNING)

\* C12: every call of _add_new_package, returned or raised, is followed by
\* an update_progress before the next package is tried; over the snapshots
\* pushed in a run finished + error never decreases, and the snapshot pushed
\* after the n-th processed package shows finished + error = n, one more than
\* the snapshot before it.
C12_SnapshotPerPackage == LET adds == CallsTo("_add_new_package")
                              updates == CallsTo("update_progress")
                              running == RunningSnapshots
                          IN /\ \A i \in adds : \E j \in updates : j > i /\ \A k \in adds : k > i => k > j
                             /\ \A i \in 1..(Len(pushes) - 1) : Progress(pushes[i]) <= Progress(pushes[i + 1])
                             /\ progress_report.packages_state # STATE_NOT_STARTED => Len(running) = 1 + Cardinality(adds)
                             /\ \A n \in DOMAIN running : Progress(running[n]) = n - 1

\* C12 witness: two new packages, the first failed and the second imported,
\* with a snapshot after each
C12_Witness == /\ pc = "done"
               /\ Len(new_unit_keys) = 2
               /\ \E i \in CallsFor("_add_new_package", new_unit_keys[1]) : ~log[i].ok
               /\ \E i \in CallsFor("_add_new_package", new_unit_keys[2]) : log[i].ok
               /\ Len(RunningSnapshots) = 3
               /\ RunningSnapshots[2].packages_error_count = Some(1)
               /\ RunningSnapshots[3].packages_finished_count = Some(1)

\* C13: no pushed snapshot shows the import running with a total, finished
\* or error count unset, and the first snapshot that shows the import begun
\* has the total set and the two other counts at 0.
C13_NoRunningWithoutCounts == /\ \A i \in DOMAIN pushes : pushes[i].packages_state = STATE_RUNNING => /\ pushes[i].packages_total_count # None
                                                                                                      /\ pushes[i].packages_finished_count # None
                                                                                                      /\ pushes[i].packages_error_count # None
                              /\ \A i \in DOMAIN pushes : (pushes[i].packages_state # STATE_NOT_STARTED /\ \A j \in 1..(i - 1) : pushes[j].packages_state = STATE_NOT_STARTED) => /\ pushes[i].packages_total_count = Some(Len(new_unit_keys))
                                                                                                                                                                             /\ pushes[i].packages_finished_count = Some(0)
                                                                                                                                                                             /\ pushes[i].packages_error_count = Some(0)

\* C13 witness: a snapshot with the import not started and no count, then
\* one with the import running over two new packages
C13_Witness == \E i \in DOMAIN pushes : /\ i > 1
                                        /\ pushes[i - 1].packages_state = STATE_NOT_STARTED
                                        /\ pushes[i - 1].packages_total_count = None
                                        /\ pushes[i].packages_state = STATE_RUNNING
                                        /\ pushes[i].packages_total_count = Some(2)

\* a fatal error: the index was not fetched, not parsed, or
\* _do_import_packages raised
FatalError == FetchFailed \/ ParseFailed \/ raised # None

\* C14: when perform_sync has returned, the last two report calls were one
\* update_progress and then build_final_report, the report returned is built
\* from the states the last snapshot shows, and it is a failure report
\* whenever a fatal error occurred in either phase.
C14_FinalPushThenReport == pc = "done" => /\ Len(log) >= 2
                                          /\ log[Len(log) - 1] = update_progress_call
                                          /\ log[Len(log)] = build_final_report_call
                                          /\ pushes # << >>
                                          /\ pushes[Len(pushes)] = build_progress_report(progress_report)
                                          /\ returned = Some(build_final_report(final_report_fields(progress_report)))
                                          /\ returned[1].outcome = "success_report" <=> (pushes[Len(pushes)].state = STATE_SUCCESS /\ pushes[Len(pushes)].packages_state = STATE_SUCCESS)
                                          /\ FatalError => returned[1].outcome = "failure_report"

\* C14 witness: a run that imported a package and whose removal of a missing
\* unit then raised
C14_Witness == /\ pc = "done"
               /\ RemoveFailed
               /\ progress_report.packages_finished_count = Some(1)
               /\ returned[1].outcome = "failure_report"

\* C15 (as claimed): the index phase state goes not-started, running, then
\* success or failed: the state _update_dist marks running is the one it
\* marks success or failed, a snapshot showed it running before it showed it
\* over, and once perform_sync has returned no phase state is running.
C15_IndexPhaseStateMachine == /\ pc = "done" => /\ progress_report.resource_state # STATE_RUNNING
                                                /\ progress_report.state # STATE_RUNNING
                                                /\ progress_report.packages_state # STATE_RUNNING
                              /\ \A i \in DOMAIN pushes : pushes[i].state \in {STATE_SUCCESS, STATE_FAILED} => \E j \in 1..(i - 1) : pushes[j].state = STATE_RUNNING

\* the store holds exactly the packages the run works from, and nothing is to
\* be removed
NothingToDo == pc # "start" /\ ~_should_remove_missing(config) /\ store_before = RemoteKeys

FactoryRejections == {i \in CallsTo("get_downloader") : ~log[i].ok}

\* the number of snapshots pushed before the call at position `i`
PushedBefore(i) == Cardinality({j \in CallsTo("update_progress") : j < i})

\* C18 (as claimed): when the downloader factory rejects the feed URL, no
\* snapshot has been pushed yet and no phase state has left not-started.
C18_ConfigurationErrorBeforePhases == \A i \in FactoryRejections : /\ PushedBefore(i) = 0
                                                                   /\ \A k \in 1..PushedBefore(i) : /\ pushes[k].resource_state = STATE_NOT_STARTED
                                                                                                    /\ pushes[k].state = STATE_NOT_STARTED
                                                                                                    /\ pushes[k].packages_state = STATE_NOT_STARTED

\* C18 (amended): the downloader factory rejects the feed URL inside
\* _update_dist, after the retrieval was marked running and one snapshot was
\* pushed; the rejection is recorded as a failed index download, the import
\* never starts, no store operation is called and the report returned is a
\* failure report.
C18_ConfigurationErrorInIndexPhase == \A i \in FactoryRejections : /\ PushedBefore(i) = 1
                                                                   /\ pushes[1].resource_state = STATE_RUNNING
                                                                   /\ pushes[1].state = STATE_NOT_STARTED
                                                                   /\ pushes[1].packages_state = STATE_NOT_STARTED
                                                                   /\ progress_report.state = STATE_FAILED
                                                                   /\ progress_report.error_message = Some("Error downloading resources")
                                                                   /\ progress_report.exception = ExceptionOf("ConfigurationError")
                                                                   /\ progress_report.packages_state = STATE_NOT_STARTED
                                                                   /\ CallsTo("download_resources") = {}
                                                                   /\ \A j \in DOMAIN log : log[j].op \notin StoreOps
                                                                   /\ pc = "done" => returned[1].outcome = "failure_report"

\* C18 witness: a finished run over a non-empty index whose feed URL the
\* factory rejected
C18_Witness == /\ pc = "done"
               /\ FactoryRejections # {}
               /\ remote_index # << >>
               /\ Len(pushes) = 3

\* the package list names a key more than once
DuplicateKeys == Len(dist_packages) > Cardinality(RemoteKeys)

\* C19 (as claimed): a run whose package list names a key twice does not end
\* the import with state success.
C19_DuplicateKeysAreAnError == (pc = "done" /\ DuplicateKeys) => progress_report.packages_state # STATE_SUCCESS

\* C19 (amended): a package list that names a key twice is imported as if it
\* named it once: the key is counted once in the total, _add_new_package is
\* called at most once for it, and the import ends with state success when
\* nothing raised out of _do_import_packages.
C19_DuplicateKeysCollapse == (DuplicateKeys /\ ImportOver) => /\ progress_report.packages_total_count = Some(Cardinality(RemoteKeys \ store_before))
                                                              /\ Len(new_unit_keys) = Cardinality(ToSet(new_unit_keys))
                                                              /\ \A k \in Keys : Cardinality(CallsFor("_add_new_package", k)) = IF k \in RemoteKeys \ store_before THEN 1 ELSE 0
                                                              /\ raised = None => progress_report.packages_state = STATE_SUCCESS

\* C19 witness: a finished run over an index that lists the same new package
\* twice
C19_Witness == /\ pc = "done"
               /\ Len(dist_packages) = 2
               /\ Cardinality(RemoteKeys) = 1
               /\ progress_report.packages_total_count = Some(1)
               /\ progress_report.packages_finished_count = Some(1)
               /\ progress_report.packages_state = STATE_SUCCESS

\* the index download was cancelled
IndexCancelled == progress_report.exception = ExceptionOf("Cancelled")

\* the new packages whose download was cancelled
CancelledPackages == {k \in ErrorEntries(progress_report) : progress_report.packages_individual_errors[1][k].of = "Cancelled"}

\* C20: a cancelled index download is a failed index phase after which the
\* import never starts; a cancelled package download is recorded by
\* add_failed_package for that package, never leaves _do_import_packages, and
\* the add loop still calls _add_new_package once for every new key.
C20_CancellationByPhase == /\ IndexCancelled => /\ progress_report.state = STATE_FAILED
                                                /\ progress_report.error_message = Some("Error downloading resources")
                                                /\ progress_report.packages_state = STATE_NOT_STARTED
                                                /\ CallsTo("get_units") \cup CallsTo("_add_new_package") = {}
                                                /\ \E i \in CallsFor("download_resources", "index") : ~log[i].ok
                           /\ raised # Some("Cancelled")
                           /\ \A k \in CancelledPackages : /\ Cardinality(CallsFor("add_failed_package", k)) = 1
                                                           /\ \E i \in CallsFor("download_resources", k) : ~log[i].ok
                           /\ \A i \in CallsTo("download_resources") : (log[i].key # "index" /\ ~log[i].ok) => log[i].key \in ErrorEntries(progress_report)
                           /\ AddLoopOver => \A k \in ToSet(new_unit_keys) : Cardinality(CallsFor("_add_new_package", k)) = 1

\* C20 witness: two new packages, the download of the first was cancelled and
\* the second was then imported
C20_Witness == /\ pc = "done"
               /\ Len(new_unit_keys) = 2
               /\ new_unit_keys[1] \in CancelledPackages
               /\ \E i \in CallsFor("add_failed_package", new_unit_keys[1]) : \E j \in CallsFor("_add_new_package", new_unit_keys[2]) : i < j /\ log[j].ok
               /\ progress_report.packages_state = STATE_SUCCESS

\* C17: the report from_progress_dict makes of the dict build_progress_report
\* built has the phase states, execution times, total, finished and error
\* counts, individual errors, error messages and publish states of the
\* report the dict was built from; the dict is the same whatever the conduit
\* of the report is, and the report made of it has no conduit.
C17_ProgressDictRoundTrip == /\ pub_dict # None => \A c \in {None, Some("another conduit")} : publish_progress_dict([pub EXCEPT !.conduit = c]) = pub_dict[1]
                             /\ pub_back # None => /\ pub_back[1].packages_state = pub.packages_state
                                                   /\ pub_back[1].metadata_state = pub.metadata_state
                                                   /\ pub_back[1].packages_execution_time = pub.packages_execution_time
                                                   /\ pub_back[1].metadata_execution_time = pub.metadata_execution_time
                                                   /\ pub_back[1].packages_total_count = pub.packages_total_count
                                                   /\ pub_back[1].packages_finished_count = pub.packages_finished_count
                                                   /\ pub_back[1].packages_error_count = pub.packages_error_count
                                                   /\ pub_back[1].packages_individual_errors = pub.packages_individual_errors
                                                   /\ pub_back[1].packages_error_message = pub.packages_error_message
                                                   /\ pub_back[1].metadata_error_message = pub.metadata_error_message
                                                   /\ pub_back[1].publish_http = pub.publish_http
                                                   /\ pub_back[1].publish_https = pub.publish_https
                                                   /\ pub_back[1].conduit = None
                                                   /\ publish_progress_dict(pub) = pub_dict[1]

\* C17 witness: the round trip of a report with counts that differ, a package
\* error, a failed packages step whose exception comes back as text, and
\* publish states that differ
C17_Witness == /\ pub_back # None
               /\ pub.packages_state = STATE_FAILED
               /\ pub.metadata_state = STATE_SUCCESS
               /\ pub.packages_finished_count = Some(1)
               /\ pub.packages_total_count = Some(2)
               /\ pub.packages_individual_errors # None
               /\ pub.packages_error_message # None
               /\ pub.packages_exception # None
               /\ pub_back[1].packages_exception # pub.packages_exception
               /\ pub.packages_execution_time = Some(1)
               /\ pub.publish_http = STATE_SUCCESS
               /\ pub.publish_https = STATE_SKIPPED

\* positions of the remove_unit calls that raised
FailedRemovals == {i \in CallsTo("remove_unit") : ~log[i].ok}

\* keys of the units a save_unit call that returned has put in the store
SavedInRun == {log[i].key : i \in {j \in CallsTo("save_unit") : log[j].ok}}

\* keys of the units a remove_unit call that returned has taken out of the store
RemovedInRun == {log[i].key : i \in {j \in CallsTo("remove_unit") : log[j].ok}}

\* C21: when a remove_unit raises, it is the last remove_unit of the run, the
\* import ends failed with its error message set, the report returned is a
\* failure report, every unit saved earlier in the run is still in the
\* store, and the finished and error counts are those the add loop reached.
C21_RemovalFailureEndsImport == RemoveFailed => /\ _should_remove_missing(config)
                                                /\ Cardinality(FailedRemovals) = 1
                                                /\ \A i \in FailedRemovals : \A j \in CallsTo("remove_unit") : j <= i
                                                /\ Cardinality(CallsTo("remove_unit")) <= Len(remove_unit_keys)
                                                /\ raised # None
                                                /\ pc \in {"finally", "done"}
                                                /\ progress_report.packages_state = STATE_FAILED
                                                /\ progress_report.packages_error_message = Some("Error retrieving packages")
                                                /\ pc = "done" => returned[1].outcome = "failure_report"
                                                /\ SavedInRun \subseteq store
                                                /\ store = (store_before \cup SavedInRun) \ RemovedInRun
                                                /\ progress_report.packages_finished_count = Some(Cardinality({i \in CallsTo("_add_new_package") : log[i].ok}))
                                                /\ progress_report.packages_error_count = Some(Cardinality({i \in CallsTo("_add_new_package") : ~log[i].ok}))

\* C21 witness: a new package was saved, a first missing unit was removed,
\* the removal of the second raised and the unit is still in the store
C21_Witness == /\ pc = "done"
               /\ RemoveFailed
               /\ Len(remove_unit_keys) = 2
               /\ Cardinality(RemovedInRun) = 1
               /\ remove_unit_keys[2] \in store
               /\ SavedInRun # {}
               /\ progress_report.packages_finished_count = Some(1)
               /\ progress_report.packages_error_count = Some(0)

\* C22: when what _add_new_package does for a package depends on the package
\* alone, importing the same new packages in any two orders leaves the same
\* finished count, error count, individual errors, phase states and stored
\* units.
C22_OrderIndependence == ordered # None => /\ ordered[1].a.report.packages_finished_count = ordered[1].b.report.packages_finished_count
                                           /\ ordered[1].a.report.packages_error_count = ordered[1].b.report.packages_error_count
                                           /\ ordered[1].a.report.packages_individual_errors = ordered[1].b.report.packages_individual_errors
                                           /\ ordered[1].a.report.state = ordered[1].b.report.state
                                           /\ ordered[1].a.report.packages_state = ordered[1].b.report.packages_state
                                           /\ ordered[1].a.store = ordered[1].b.store
                                           /\ ordered[1].a.report.packages_finished_count[1] + ordered[1].a.report.packages_error_count[1] = Len(orders[1].a)

\* C22 witness: three new packages imported in two orders that differ in
\* every place, one package failing with nothing saved, one failing after a
\* unit of it was saved, one imported
C22_Witness == /\ ordered # None
               /\ Len(orders[1].a) = 3
               /\ \A i \in 1..3 : orders[1].a[i] # orders[1].b[i]
               /\ ordered[1].a.report.packages_finished_count = Some(1)
               /\ ordered[1].a.report.packages_error_count = Some(2)
               /\ Cardinality(ordered[1].a.store) = 2

\* the three counts of the report are set
CountsSet == /\ progress_report.packages_total_count # None
             /\ progress_report.packages_finished_count # None
             /\ progress_report.packages_error_count # None

\* C23: once the counts are set, the finished and the error count are at
\* least 0, their sum is the number of new packages processed so far and at
\* most the total count; the three counts are set together, and
\* add_failed_package is only ever called with the error count set, so it
\* never raises.
C23_CountBounds == /\ CountsSet => /\ progress_report.packages_finished_count[1] >= 0
                                   /\ progress_report.packages_error_count[1] >= 0
                                   /\ progress_report.packages_finished_count[1] + progress_report.packages_error_count[1] <= progress_report.packages_total_count[1]
                                   /\ progress_report.packages_finished_count[1] + progress_report.packages_error_count[1] = Cardinality(CallsTo("_add_new_package"))
                                   /\ progress_report.packages_finished_count[1] + progress_report.packages_error_count[1] = next_new - 1
                   /\ progress_report.packages_total_count # None => CountsSet
                   /\ progress_report.packages_state # STATE_NOT_STARTED => CountsSet
                   /\ \A i \in CallsTo("add_failed_package") : log[i].ok
                   /\ raised # Some("TypeError")

\* C23 witness: in the middle of the add loop, one package failed and one
\* still to process
C23_Witness == /\ pc = "add_new_units"
               /\ progress_report.packages_total_count = Some(2)
               /\ progress_report.packages_finished_count = Some(0)
               /\ progress_report.packages_error_count = Some(1)
               /\ CallsTo("add_failed_package") # {}

\* C24: throughout a run the error count, once set, is the number of entries
\* of the individual errors, and while it is unset there is no entry; the new
\* keys are pairwise distinct, the entries are under the keys of the new
\* packages whose _add_new_package raised, one entry each.
C24_ErrorCountIsEntryCount == /\ progress_report.packages_error_count # None => progress_report.packages_error_count[1] = Cardinality(ErrorEntries(progress_report))
                              /\ progress_report.packages_error_count = None => ErrorEntries(progress_report) = {}
                              /\ \A i, j \in DOMAIN new_unit_keys : i # j => new_unit_keys[i] # new_unit_keys[j]
                              /\ ErrorEntries(progress_report) = {log[i].key : i \in CallsTo("add_failed_package")}
                              /\ Cardinality(CallsTo("add_failed_package")) = Cardinality(ErrorEntries(progress_report))
                              /\ \A i \in DOMAIN pushes : pushes[i].packages_error_count # None => pushes[i].packages_error_count[1] = Cardinality(ErrorEntries(pushes[i]))

\* C24 witness: two new packages failed, two entries
C24_Witness == /\ pc = "done"
               /\ progress_report.packages_error_count = Some(2)
               /\ Cardinality(ErrorEntries(progress_report)) = 2
               /\ Len(dist_packages) = 2

\* positions of the calls to `op` for resource `part` of the package `key`
CallsForPart(op, key, part) == {i \in CallsFor(op, key) : log[i].part = part}

\* C25: a save_unit for a package comes only after the download of its
\* resources and the copy of every one of them returned, so a package whose
\* download or copy raised has no unit saved or linked and is not in the
\* store; for a source package the parent unit is saved before any unit of a
\* resource, and a unit is linked to the parent only after its own save_unit
\* returned.
C25_SaveAfterDownloadAndCopy == \A k \in Keys : LET saves == CallsFor("save_unit", k)
                                                    links == CallsFor("link_unit", k)
                                                    copies == CallsFor("copy", k)
                                                    fetches == CallsFor("download_resources", k) \cup copies
                                                    parent == {j \in saves : log[j].part = 0 /\ log[j].ok}
                                                IN /\ \A i \in saves : /\ \E j \in fetches : j < i /\ log[j].op = "download_resources" /\ log[j].ok
                                                                       /\ \A part \in 1..PackageOf(k).resources : \E j \in copies : j < i /\ log[j].part = part /\ log[j].ok
                                                                       /\ \A j \in fetches : j < i
                                                                       /\ (log[i].part # 0 /\ PackageOf(k).package_type = "source") => \E j \in parent : j < i
                                                   /\ \A i \in links : /\ PackageOf(k).package_type = "source"
                                                                       /\ \E j \in parent : j < i
                                                                       /\ \E j \in saves : j < i /\ log[j].part = log[i].part /\ log[j].ok
                                                   /\ (\E i \in fetches : ~log[i].ok) => /\ saves \cup links = {}
                                                                                         /\ k \notin store

\* C25 witness: a source package with two resources was saved and linked
\* whole, and another package whose copy raised is not in the store
C25_Witness == /\ pc = "done"
               /\ \E k \in Keys : /\ PackageOf(k).package_type = "source"
                                  /\ \E i \in CallsForPart("link_unit", k, 2) : log[i].ok
                                  /\ k \in store
               /\ \E k \in Keys : /\ \E i \in CallsFor("copy", k) : ~log[i].ok
                                  /\ k \notin store

\* keys the store held before the run that the package list of the run names
KeptKeys == store_before \cap RemoteKeys

\* calls that fetch, create, store or remove the unit of a package
UnitOps == {"_add_new_package", "download_resources", "init_unit", "copy", "save_unit", "link_unit", "add_failed_package", "remove_unit"}

=============================================================================
